---- MODULE Spec2Model ----
(***************************************************************************)
(* Model of images.py: the renumbering engine (consecutively_number), the  *)
(* type narrowing rule (_conv_type), the connected-component validator     *)
(* (relabel) and the histogram matcher's lookup table (histeq).            *)
(*                                                                         *)
(* Images are functions from pixel positions to values.  Plain pixels are  *)
(* integers, RGB pixels are triples <<R, G, B>>.  Numbers that may exceed  *)
(* the range of 32-bit integers (type maxima up to 2^64-1) are kept       *)
(* as five 16-bit limbs, least significant first.                          *)
(***************************************************************************)
EXTENDS Integers, Sequences, FiniteSets

\* ------------------------------------------------------------------ bounds
Rows == 2
Cols == 2
HistCols == 3

\* ------------------------------------------------------- image data types
IM_BIT == "IM_BIT"
IM_BYTE == "IM_BYTE"
IM_SBYTE == "IM_SBYTE"
IM_USHORT == "IM_USHORT"
IM_UINT == "IM_UINT"
IM_ULONG == "IM_ULONG"
IM_RGB24 == "IM_RGB24"
IM_DOUBLE == "IM_DOUBLE"

_unsigned_types == <<IM_BIT, IM_BYTE, IM_USHORT, IM_UINT, IM_ULONG>>

\* A natural number below 2^31 as limbs.
Big(k) == <<k % 65536, k \div 65536, 0, 0, 0>>

\* The value of a limb number that is below 2^31.
Small(b) == b[1] + 65536 * b[2]

\* Variant: the comparison of line 272 written as n < max.
BigLE_strict(a, b) ==
    \E k \in 1..5 : /\ a[k] < b[k]
                     /\ \A m \in (k+1)..5 : a[m] = b[m]

\* a <= b on limb numbers: equal, or the most significant differing limb is smaller.
BigLE(a, b) ==
    \/ a = b
    \/ \E k \in 1..5 : /\ a[k] < b[k]
                       /\ \A m \in (k+1)..5 : a[m] = b[m]

\* _min_max_values[dt][1] for the unsigned types: True (1) for IM_BIT, iinfo(dt).max otherwise.
_min_max_values(dt) ==
    CASE dt = IM_BIT    -> <<1, 0, 0, 0, 0>>
      [] dt = IM_BYTE   -> <<255, 0, 0, 0, 0>>
      [] dt = IM_USHORT -> <<65535, 0, 0, 0, 0>>
      [] dt = IM_UINT   -> <<65535, 65535, 0, 0, 0>>
      [] dt = IM_ULONG  -> <<65535, 65535, 65535, 65535, 0>>

\* _get_min_max(x)[1] for a dtype or an image of an unsigned type.
_get_min_max(dt) == _min_max_values(dt)

\* is_rgb24 / is_image_besides_rgb24 on the dtypes the model feeds in.
is_rgb24(image) == image.dtype = IM_RGB24
is_image_besides_rgb24(image) == image.dtype \in {IM_BIT, IM_BYTE, IM_SBYTE, IM_USHORT, IM_UINT, IM_ULONG, IM_DOUBLE}

\* ---------------------------------------------------------------- pixels
Pix == (1..Rows) \X (1..Cols)

\* Position of a pixel in C (row-major) order.
Raster(p) == (p[1] - 1) * Cols + p[2]

\* Input pixel values: 0, a dense successor, a value after a gap, a negative.
PlainValues == {0, 1, 3}
NegValues == {-1}
RGBValues == {<<0, 0, 0>>, <<0, 2, 1>>, <<1, 0, 0>>}

\* Order of values as numpy sorts them: numeric, or field by field for RGB records.
ValLess(dtype, a, b) ==
    IF dtype = IM_RGB24
    THEN \/ a[1] < b[1]
         \/ a[1] = b[1] /\ a[2] < b[2]
         \/ a[1] = b[1] /\ a[2] = b[2] /\ a[3] < b[3]
    ELSE a < b

\* The elements of S as an ascending sequence.
sorted(S, dtype) ==
    << >> \o [k \in 1..Cardinality(S) |->
                CHOOSE v \in S : Cardinality({w \in S : ValLess(dtype, w, v)}) = k - 1]

\* numpy.unique: the distinct values of the image, ascending.
unique(image) == sorted({image.px[p] : p \in DOMAIN image.px}, image.dtype)

\* Variant: the synthetic zero is never inserted.
insert_skipped(values, v) == values

\* numpy.insert(values, 0, v)
insert(values, v) == <<v>> \o values

\* Variant: searchsorted with side='right'.
searchsorted_right(dtype, values, v) ==
    Cardinality({k \in DOMAIN values : ~ValLess(dtype, v, values[k])})

\* numpy.searchsorted(values, v) (side='left') on an ascending sequence.
searchsorted(dtype, values, v) ==
    Cardinality({k \in DOMAIN values : ValLess(dtype, values[k], v)})

\* ndarray.astype(dt) on one non-negative integer value.
astype(v, dt) ==
    CASE dt = IM_BIT    -> IF v = 0 THEN 0 ELSE 1
      [] dt = IM_BYTE   -> v % 256
      [] dt = IM_USHORT -> v % 65536
      [] OTHER          -> v

\* Index (1-based) of the first type of _unsigned_types that holds n, 0 if none.
FirstFit(n) ==
    IF \E k \in DOMAIN _unsigned_types : BigLE(n, _get_min_max(_unsigned_types[k]))
    THEN CHOOSE k \in DOMAIN _unsigned_types :
            /\ BigLE(n, _get_min_max(_unsigned_types[k]))
            /\ \A m \in 1..(k-1) : ~BigLE(n, _get_min_max(_unsigned_types[m]))
    ELSE 0

\* Lines 272-274 for the type found: the converted image and n, or OverflowError.
conv_into(px, n, k) ==
    IF k = 0
    THEN [exc |-> "OverflowError", px |-> << >>, dtype |-> "none", n |-> n]
    ELSE [exc |-> "none",
          px |-> [p \in DOMAIN px |-> astype(px[p], _unsigned_types[k])],
          dtype |-> _unsigned_types[k], n |-> n]

\* _conv_type(im, n): the image in the first fitting type together with n, or OverflowError.
_conv_type(px, n) == conv_into(px, n, FirstFit(n))

Zero(dtype) == IF dtype = IM_RGB24 THEN <<0, 0, 0>> ELSE 0

\* Variant: the fast path is taken for every non-float image.
already_consecutive_unchecked(image, values) == image.dtype # IM_DOUBLE

\* Line 266: the image is not floating point and its values are already 0..len(values)-1.
already_consecutive(image, values) ==
    image.dtype # IM_DOUBLE /\ values[Len(values)] = Len(values) - 1

\* Lines 254 and 265: values with the zero value at the front.
with_zero(u, z) == IF u[1] # z THEN insert(u, z) ELSE u

\* Line 268: every pixel becomes the position of its value in values.
remap(image, values) ==
    _conv_type([p \in DOMAIN image.px |-> searchsorted(image.dtype, values, image.px[p])],
               Big(Len(values) - 1))

\* Lines 266-268 for a plain image.
renumber_plain(image, values) ==
    IF already_consecutive(image, values)
    THEN _conv_type(image.px, Big(Len(values) - 1))
    ELSE remap(image, values)

\* Lines 258-268 for a plain image with distinct values u.
check_plain(image, u) ==
    IF u[1] < 0
    THEN [exc |-> "ValueError", px |-> << >>, dtype |-> "none", n |-> Big(0)]
    ELSE renumber_plain(image, with_zero(u, 0))

\* consecutively_number(im)
consecutively_number(image) ==
    IF is_rgb24(image) THEN remap(image, with_zero(unique(image), <<0, 0, 0>>))
    ELSE IF is_image_besides_rgb24(image) THEN check_plain(image, unique(image))
    ELSE [exc |-> "ValueError", px |-> << >>, dtype |-> "none", n |-> Big(0)]

\* ---------------------------------------------- scipy.ndimage.label (4-neighbour)
Adj(p, q) ==
    \/ p[1] = q[1] /\ (p[2] = q[2] + 1 \/ q[2] = p[2] + 1)
    \/ p[2] = q[2] /\ (p[1] = q[1] + 1 \/ q[1] = p[1] + 1)

RECURSIVE Grow(_, _)
Grow(S, mask) ==
    IF \E p \in mask \ S : \E q \in S : Adj(p, q)
    THEN Grow(S \cup {p \in mask : \E q \in S : Adj(p, q)}, mask)
    ELSE S

\* The connected components of the mask.
Components(mask) == {Grow({p}, mask) : p \in mask}

\* The first pixel of a component in raster order.
FirstPix(C) == CHOOSE p \in C : \A q \in C : Raster(p) <= Raster(q)

\* The number scipy gives component C: components are numbered as the raster scan meets them.
comp_id(cs, C) == Cardinality({D \in cs : Raster(FirstPix(D)) <= Raster(FirstPix(C))})

label_of(mask, cs) ==
    [l |-> [p \in Pix |-> IF p \in mask THEN comp_id(cs, CHOOSE C \in cs : p \in C) ELSE 0],
     n |-> Cardinality(cs)]

\* label(mask): the component number of every pixel (0 outside the mask) and the count.
label(mask) == label_of(mask, Components(mask))

\* ------------------------------------------------------------------ histeq
\* The arguments nbins and hgram: None, or a bin count / an array of counts.
NoBins == [none |-> TRUE, v |-> 0]
NoHgram == [none |-> TRUE, ndim |-> 0, h |-> << >>]

\* Source intensities of the 256-bin histogram and of the lookup table.
Levels == 256

HistPix == {1} \X (1..HistCols)

\* im.view(dtype=_signed2unsigned[im.dtype]) on one value: the same bits read unsigned.
view_unsigned(v) == IF v < 0 THEN v + 256 ELSE v

\* .view(dtype=orig_dtype) on one value of the lookup result.
view_orig(v, dtype) == IF dtype = IM_SBYTE /\ v >= 128 THEN v - 256 ELSE v

\* numpy.histogram(im, 256, range=(0, mx+1))[0]; entry s+1 counts the pixels of bin s.
histogram(px, top) ==
    [s \in 1..Levels |-> Cardinality({p \in DOMAIN px : (px[p] * Levels) \div (top + 1) = s - 1})]

\* The running sums of left followed by those of right continued from the last of left.
cumsum_join(left, right) ==
    left \o [k \in 1..Len(right) |-> right[k] + left[Len(left)]]

\* The running sums of h[a..b].
RECURSIVE cumsum_range(_, _, _)
cumsum_range(h, a, b) ==
    IF a = b THEN <<h[a]>>
    ELSE cumsum_join(cumsum_range(h, a, (a + b) \div 2), cumsum_range(h, (a + b) \div 2 + 1, b))

\* ndarray.cumsum()
cumsum(h) == IF Len(h) = 0 THEN << >> ELSE cumsum_range(h, 1, Len(h))

\* sum(hgram)
RECURSIVE sum(_)
sum(h) == IF h = << >> THEN 0 ELSE Head(h) + sum(Tail(h))

\* h_dst as exact fractions num[d]/den: size/nbins in every bin, or hgram*(size/sum(hgram)).
h_dst_uniform(size, nb) == [num |-> [d \in 1..nb |-> size], den |-> nb]
h_dst_custom(size, h) == [num |-> [d \in 1..Len(h) |-> h[d] * size], den |-> sum(h)]

\* xx.min(0) of lines 199-201: h_src with its first and last entry zeroed; tol is half of it.
xx_min(src) == [s \in 1..Levels |-> IF s = 1 \/ s = Levels THEN 0 ELSE src[s]]

\* Variant: no entry is replaced.
clamp_off(e, size, den) == e

\* Line 203 on one entry, in units of 1/(2*den): an error below the (tiny) negative
\* threshold becomes im.size.  Exact errors are multiples of 1/(2*den), so below
\* -im.size*sqrt(spacing(1)) means below 0 for the image sizes of the model.
clamp(e, size, den) == IF e < 0 THEN 2 * den * size ELSE e

\* err[d, s] of lines 202-203 in units of 1/(2*den).
err(d, s, dst_cdf, src_cdf, src, size, den) ==
    clamp(2 * dst_cdf[d] - 2 * den * src_cdf[s] + den * xx_min(src)[s], size, den)

\* The first index of the least entry of row[1..nb]: the scan from d on, the least so
\* far being least at index best.
RECURSIVE argmin_from(_, _, _, _, _), argmin_next(_, _, _, _, _, _)
argmin_from(row, nb, d, best, least) ==
    IF d > nb THEN best
    ELSE argmin_next(row, nb, d, best, least, row[d])

argmin_next(row, nb, d, best, least, e) ==
    IF e < least THEN argmin_from(row, nb, d + 1, d, e)
    ELSE argmin_from(row, nb, d + 1, best, least)

\* err.argmin(0)[s]: the first bin (0-based) of least error.
argmin(row, nb) == argmin_from(row, nb, 2, 1, row[1]) - 1

\* numpy round (half to even) of a/b, a >= 0, b > 0.
round(a, b) ==
    LET q == a \div b
        r == a % b
    IN IF 2 * r < b THEN q
       ELSE IF 2 * r > b THEN q + 1
       ELSE IF q % 2 = 0 THEN q ELSE q + 1

\* Lines 181-186: the exception the argument checks raise, or "none".
histeq_check(image, nb_arg, hg_arg) ==
    IF ~is_image_besides_rgb24(image) THEN "ValueError"
    ELSE IF ~hg_arg.none /\ ~nb_arg.none THEN "ValueError"
    ELSE IF ~hg_arg.none /\ hg_arg.ndim # 1 THEN "ValueError"
    ELSE "none"

\* nbins after lines 182-188.
histeq_nbins(nb_arg, hg_arg) ==
    IF hg_arg.none THEN (IF nb_arg.none THEN 64 ELSE nb_arg.v) ELSE Len(hg_arg.h)

\* im after lines 191-192.
histeq_view(image) ==
    [p \in DOMAIN image.px |->
        IF image.dtype = IM_SBYTE THEN view_unsigned(image.px[p]) ELSE image.px[p]]

\* ------------------------------------------------------------------ state
VARIABLES pc, inp, im, dt, N, mx, i, stop, l, n, j, checked, exc, narg,
          nbins, hgram, h_dst, h_src, h_src_cdf, h_dst_cdf, bins, T

vars == <<pc, inp, im, dt, N, mx, i, stop, l, n, j, checked, exc, narg,
          nbins, hgram, h_dst, h_src, h_src_cdf, h_dst_cdf, bins, T>>

\* The state of a histeq call.
hvars == <<nbins, hgram, h_dst, h_src, h_src_cdf, h_dst_cdf, bins, T>>

\* The state of a relabel call.
rvars == <<N, mx, i, stop, l, n, j, checked>>

NoImage == [p \in Pix |-> 0]

PlainImages ==
    {[dtype |-> d, px |-> f] : d \in {IM_BYTE, IM_DOUBLE}, f \in [Pix -> PlainValues]}
NegImages ==
    {[dtype |-> IM_SBYTE, px |-> [p \in Pix |-> IF p = q THEN v ELSE 0]] :
        q \in Pix, v \in NegValues}
RGBImages == {[dtype |-> IM_RGB24, px |-> f] : f \in [Pix -> RGBValues]}
Inputs == PlainImages \cup NegImages \cup RGBImages

\* Inputs of relabel: the 8-bit images, float images of two values, RGB images without black.
RelabelInputs ==
    {image \in Inputs : image.dtype \in {IM_BYTE, IM_SBYTE}}
        \cup {[dtype |-> IM_DOUBLE, px |-> f] : f \in [Pix -> {0, 3}]}
        \cup {[dtype |-> IM_RGB24, px |-> f] : f \in [Pix -> {<<0, 2, 1>>, <<1, 0, 0>>}]}

Init ==
    /\ pc = "idle"
    /\ inp = [dtype |-> IM_BIT, px |-> NoImage]
    /\ im = NoImage
    /\ dt = IM_BIT
    /\ N = 0
    /\ mx = Big(0)
    /\ i = 0
    /\ stop = 0
    /\ l = NoImage
    /\ n = 0
    /\ j = 0
    /\ checked = << >>
    /\ exc = "none"
    /\ narg = Big(0)
    /\ nbins = 0
    /\ hgram = NoHgram
    /\ h_dst = [num |-> << >>, den |-> 1]
    /\ h_src = << >>
    /\ h_src_cdf = << >>
    /\ h_dst_cdf = << >>
    /\ bins = << >>
    /\ T = << >>

\* The state after consecutively_number(image) gave r.
cn_result(image, r) ==
    /\ inp' = image
    /\ exc' = r.exc
    /\ IF r.exc = "none"
       THEN /\ pc' = "cn_ret"
            /\ im' = r.px
            /\ dt' = r.dtype
            /\ N' = Small(r.n)
       ELSE /\ pc' = "cn_raised"
            /\ UNCHANGED <<im, dt, N>>

\* A call of consecutively_number(image), to its return or its exception.
CallConsecutivelyNumber ==
    /\ pc = "idle"
    /\ \E image \in Inputs : cn_result(image, consecutively_number(image))
    /\ UNCHANGED <<mx, i, stop, l, n, j, checked, narg>>
    /\ UNCHANGED hvars

\* The state after line 227 gave r: the type's max is read and the loop range is fixed.
relabel_start(image, r) ==
    /\ inp' = image
    /\ exc' = r.exc
    /\ IF r.exc = "none"
       THEN /\ pc' = "loop"
            /\ im' = r.px
            /\ dt' = r.dtype
            /\ N' = Small(r.n)
            /\ mx' = _get_min_max(r.dtype)
            /\ i' = 1
            /\ stop' = Small(r.n) + 1
       ELSE /\ pc' = "relabel_raised"
            /\ UNCHANGED <<im, dt, N, mx, i, stop>>

\* relabel(image), lines 227-229: renumber, read the type's max, fix the loop range.
RelabelStart ==
    /\ pc = "idle"
    /\ \E image \in RelabelInputs : relabel_start(image, consecutively_number(image))
    /\ UNCHANGED <<l, n, j, checked, narg>>
    /\ UNCHANGED hvars

\* Variant: the loop bound follows N as it grows.
LoopStop_reread == N + 1

\* Loop bound of `for i in range(1, N+1)`: the range object built before the first iteration.
LoopStop == stop

\* Variant: the type is never widened.
Widen_never(cnt) == [exc |-> "none", px |-> im, dtype |-> dt, n |-> Big(N)]

\* Variants: the inner loop as range(2, n) and as range(1, n+1).
InnerRange_short(cnt) == [first |-> 2, last |-> cnt - 1]
InnerRange_all(cnt) == [first |-> 1, last |-> cnt]

\* The inner loop `for j in range(2, n+1)`: its first and last index.
InnerRange(cnt) == [first |-> 2, last |-> cnt]

\* The type check of lines 231-234 for the label whose mask has cnt components.
Widen(cnt) ==
    IF ~BigLE(Big(N + cnt - 1), mx)
    THEN _conv_type(im, Big(N + cnt - 1))
    ELSE [exc |-> "none", px |-> im, dtype |-> dt, n |-> Big(N)]

\* The state after label gave r and the type check gave w: into the inner loop, or,
\* its range being empty, on to the next label.
relabel_label(r, w) ==
    /\ l' = r.l
    /\ n' = r.n
    /\ checked' = Append(checked, i)
    /\ exc' = w.exc
    /\ IF w.exc = "none"
       THEN /\ im' = w.px
            /\ dt' = w.dtype
            /\ mx' = _get_min_max(w.dtype)
            /\ IF InnerRange(r.n).first <= InnerRange(r.n).last
               THEN /\ j' = InnerRange(r.n).first
                    /\ pc' = "split"
                    /\ i' = i
               ELSE /\ j' = j
                    /\ pc' = "loop"
                    /\ i' = i + 1
       ELSE /\ pc' = "relabel_raised"
            /\ UNCHANGED <<im, dt, mx, j, i>>

\* Lines 231-234 after label gave r.
relabel_check(r) == relabel_label(r, Widen(r.n))

\* Lines 230-234: label the mask of i, widen the type if the new labels need it.
RelabelLabel ==
    /\ pc = "loop"
    /\ i < LoopStop
    /\ relabel_check(label({p \in Pix : im[p] = i}))
    /\ UNCHANGED <<inp, N, stop, narg>>
    /\ UNCHANGED hvars

\* Variant: the label is stored before N is incremented.
Store_stale(v) == astype(v - 1, dt)

\* The value a store of v leaves in an image of the current type.
Store(v) == astype(v, dt)

\* Lines 235-237, one iteration: the next new label goes to component j; after the
\* last component the outer loop moves to the next label.
RelabelWrite ==
    /\ pc = "split"
    /\ N' = N + 1
    /\ im' = [p \in Pix |-> IF l[p] = j THEN Store(N + 1) ELSE im[p]]
    /\ IF j < InnerRange(n).last
       THEN /\ j' = j + 1
            /\ UNCHANGED <<pc, i>>
       ELSE /\ j' = j
            /\ pc' = "loop"
            /\ i' = i + 1
    /\ UNCHANGED <<inp, dt, mx, stop, l, n, checked, exc, narg>>
    /\ UNCHANGED hvars

\* Line 238: the range is exhausted, return im, N.
RelabelReturn ==
    /\ pc = "loop"
    /\ i >= LoopStop
    /\ pc' = "relabel_ret"
    /\ UNCHANGED <<inp, im, dt, N, mx, i, stop, l, n, j, checked, exc, narg>>
    /\ UNCHANGED hvars

\* Arguments n of _conv_type around every type's maximum.
BigArgs ==
    {Big(0), Big(1), Big(2), Big(3), Big(254), Big(255), Big(256), Big(257),
     Big(65534), Big(65535), Big(65536), Big(65537),
     <<65534, 65535, 0, 0, 0>>, <<65535, 65535, 0, 0, 0>>, <<0, 0, 1, 0, 0>>, <<1, 0, 1, 0, 0>>,
     <<0, 0, 0, 1, 0>>, <<65534, 65535, 65535, 65535, 0>>, <<65535, 65535, 65535, 65535, 0>>,
     <<0, 0, 0, 0, 1>>, <<1, 0, 0, 0, 1>>, <<65535, 65535, 65535, 65535, 1>>}

ConvImages == {[dtype |-> IM_BYTE, px |-> f] : f \in [Pix -> {0, 1}]}

\* A call of _conv_type(im, n), to its return or its OverflowError.
CallConvType ==
    /\ pc = "idle"
    /\ \E image \in ConvImages, k \in BigArgs :
         LET r == _conv_type(image.px, k)
         IN /\ inp' = image
            /\ narg' = k
            /\ exc' = r.exc
            /\ IF r.exc = "none"
               THEN /\ pc' = "conv_ret"
                    /\ im' = r.px
                    /\ dt' = r.dtype
               ELSE /\ pc' = "conv_raised"
                    /\ UNCHANGED <<im, dt>>
    /\ UNCHANGED <<N, mx, i, stop, l, n, j, checked>>
    /\ UNCHANGED hvars

\* Inputs of histeq: one-row 8-bit images, bin counts and target histograms.
HistValues == {0, 100, 255}
HistImages ==
    {[dtype |-> IM_BYTE, px |-> f] : f \in [HistPix -> HistValues]}
        \cup {[dtype |-> IM_SBYTE, px |-> f] : f \in [HistPix -> {-1, 100}]}
        \cup {[dtype |-> IM_RGB24, px |-> [p \in HistPix |-> <<0, 0, 0>>]]}
NBins == {NoBins} \cup {[none |-> FALSE, v |-> k] : k \in 1..4}
HGrams ==
    {NoHgram}
        \cup {[none |-> FALSE, ndim |-> 1, h |-> h] :
                h \in {<<1, 1>>, <<0, 1>>, <<1, 0>>, <<3, 1>>, <<1, 0, 2>>, <<0, 2, 1>>, <<2, 1, 0, 0>>}}
        \cup {[none |-> FALSE, ndim |-> 2, h |-> <<1, 1>>]}
HistArgs ==
    {a \in NBins \X HGrams :
        a[1].none \/ a[2].none \/ (a[1].v = 2 /\ a[2].ndim = 1 /\ a[2].h = <<1, 1>>)}

\* histeq(image, nbins, hgram), lines 181-195: the argument checks, the target
\* histogram, the unsigned view and the source histogram.
HisteqStart ==
    /\ pc = "idle"
    /\ \E image \in HistImages, a \in HistArgs :
         /\ inp' = image
         /\ hgram' = a[2]
         /\ exc' = histeq_check(image, a[1], a[2])
         /\ IF histeq_check(image, a[1], a[2]) = "none"
            THEN /\ pc' = "histeq_cdf"
                 /\ nbins' = histeq_nbins(a[1], a[2])
                 /\ h_dst' = IF a[2].none
                             THEN h_dst_uniform(Cardinality(DOMAIN image.px), histeq_nbins(a[1], a[2]))
                             ELSE h_dst_custom(Cardinality(DOMAIN image.px), a[2].h)
                 /\ im' = histeq_view(image)
                 /\ dt' = IF image.dtype = IM_SBYTE THEN IM_BYTE ELSE image.dtype
                 /\ mx' = _get_min_max(IF image.dtype = IM_SBYTE THEN IM_BYTE ELSE image.dtype)
                 /\ h_src' = histogram(histeq_view(image), Small(mx'))
            ELSE /\ pc' = "histeq_raised"
                 /\ nbins' = IF a[1].none THEN 0 ELSE a[1].v
                 /\ UNCHANGED <<h_dst, im, dt, mx, h_src>>
    /\ UNCHANGED <<N, i, stop, l, n, j, checked, narg, h_src_cdf, h_dst_cdf, bins, T>>

\* Lines 196-197: the two cumulative sums.
HisteqCdf ==
    /\ pc = "histeq_cdf"
    /\ h_src_cdf' = cumsum(h_src)
    /\ h_dst_cdf' = cumsum(h_dst.num)
    /\ pc' = "histeq_table"
    /\ UNCHANGED <<inp, im, dt, exc, narg, nbins, hgram, h_dst, h_src, bins, T>>
    /\ UNCHANGED rvars

\* Line 204 for the argmin vector b.
histeq_table(b) ==
    /\ bins' = b
    /\ T' = [s \in 1..Levels |-> round(b[s] * Small(mx), nbins - 1)]

\* Lines 199-204: the clamped error surface, its argmin per source level and the table T.
HisteqTable ==
    /\ pc = "histeq_table"
    /\ IF nbins = 1
       THEN /\ exc' = "ZeroDivisionError"
            /\ pc' = "histeq_raised"
            /\ UNCHANGED <<bins, T>>
       ELSE /\ histeq_table(<< >> \o [s \in 1..Levels |->
                          argmin([d \in 1..nbins |->
                                    err(d, s, h_dst_cdf, h_src_cdf, h_src,
                                        Cardinality(DOMAIN inp.px), h_dst.den)],
                                 nbins)])
            /\ pc' = "histeq_apply"
            /\ exc' = exc
    /\ UNCHANGED <<inp, im, dt, narg, nbins, hgram, h_dst, h_src, h_src_cdf, h_dst_cdf>>
    /\ UNCHANGED rvars

\* Lines 205-207: the table applied to the pixels, viewed as the original type.
HisteqApply ==
    /\ pc = "histeq_apply"
    /\ im' = [p \in DOMAIN im |-> view_orig(T[im[p] + 1], inp.dtype)]
    /\ dt' = inp.dtype
    /\ pc' = "histeq_ret"
    /\ UNCHANGED <<inp, exc, narg>>
    /\ UNCHANGED hvars
    /\ UNCHANGED rvars

Next ==
    \/ CallConsecutivelyNumber
    \/ HisteqStart
    \/ HisteqCdf
    \/ HisteqTable
    \/ HisteqApply
    \/ CallConvType
    \/ RelabelStart
    \/ RelabelLabel
    \/ RelabelWrite
    \/ RelabelReturn

Spec == Init /\ [][Next]_vars

\* ================================================================ properties

\* Helpers of the properties, independent of the operators of the model.
FourNeighbours(p, q) == (p[1] - q[1]) * (p[1] - q[1]) + (p[2] - q[2]) * (p[2] - q[2]) = 1

RECURSIVE Spread(_, _)
Spread(R, S) ==
    LET wider == R \cup {q \in S : \E r \in R : FourNeighbours(q, r)}
    IN IF wider = R THEN R ELSE Spread(wider, S)

Regions(S) == {Spread({p}, S) : p \in S}

IsOneRegion(S) == Cardinality(Regions(S)) = 1

PixelsOf(image, v) == {p \in Pix : image[p] = v}

ValuesOf(image) == {image[p] : p \in Pix}

InputHasZero == \E p \in Pix : inp.px[p] = Zero(inp.dtype)

\* What consecutively_number returns for the current input.
Renumbered == consecutively_number(inp)

RECURSIVE ExtraRegions(_, _)
ExtraRegions(image, v) ==
    IF v = 0 THEN 0
    ELSE Cardinality(Regions(PixelsOf(image, v))) - 1 + ExtraRegions(image, v - 1)

MaxOf(S) == CHOOSE m \in S : \A x \in S : x <= m

Capacity(dtype) ==
    CASE dtype = IM_BIT    -> 1
      [] dtype = IM_BYTE   -> 255
      [] dtype = IM_USHORT -> 65535
      [] OTHER             -> 2147483647

InRelabel == pc \in {"loop", "split"}

WriteStep == pc = "split"

\* C1 (as stated): the distinct values of the image consecutively_number returns are
\* exactly 0..N, whether or not 0 occurs in the input.
C1_DenseFromZero ==
    pc = "cn_ret" => ValuesOf(im) = 0..N

\* C1 (amended): the distinct values of the returned image are exactly 0..N when 0
\* (or (0,0,0)) occurs in the input and exactly 1..N when it does not.
C1_DenseLabels ==
    pc = "cn_ret" => ValuesOf(im) = IF InputHasZero THEN 0..N ELSE 1..N

C1_Witness ==
    /\ pc = "cn_ret"
    /\ ~InputHasZero
    /\ inp.dtype = IM_BYTE
    /\ ValuesOf(inp.px) = {1, 3}
    /\ ValuesOf(im) = {1, 2}
    /\ N = 2

\* C2: an output pixel of consecutively_number is 0 exactly when the input pixel is 0
\* (plain) or (0,0,0) (RGB), also when 0 is absent from the input.
C2_OnlyZeroBecomesZero ==
    pc = "cn_ret" => \A p \in Pix : (im[p] = 0) <=> (inp.px[p] = Zero(inp.dtype))

C2_Witness ==
    /\ pc = "cn_ret"
    /\ inp.dtype = IM_RGB24
    /\ ~InputHasZero
    /\ \E p \in Pix : im[p] = 1
    /\ \A p \in Pix : im[p] # 0

\* C3: for a plain input each output pixel is the rank of its input value among the
\* distinct input values with 0 forced in, N is that set's size minus 1, order is
\* preserved, and a dense input comes back unchanged.
C3_RankOfValue ==
    (pc = "cn_ret" /\ inp.dtype # IM_RGB24) =>
        LET S == ValuesOf(inp.px) \cup {0}
        IN /\ \A p \in Pix : im[p] = Cardinality({w \in S : w < inp.px[p]})
           /\ N = Cardinality(S) - 1
           /\ \A p, q \in Pix : (inp.px[p] < inp.px[q]) <=> (im[p] < im[q])
           /\ (S = 0..(Cardinality(S) - 1)) => im = inp.px

C3_Witness ==
    /\ pc = "cn_ret"
    /\ inp.dtype = IM_BYTE
    /\ ValuesOf(inp.px) = {0, 1, 3}
    /\ \E p \in Pix : inp.px[p] = 3 /\ im[p] = 2
    /\ N = 2

\* C4: in the image relabel returns every label 1..N occurs and is one 4-neighbour
\* connected region, and no pixel exceeds N.
C4_OneRegionPerLabel ==
    pc = "relabel_ret" =>
        /\ \A v \in 1..N : IsOneRegion(PixelsOf(im, v))
        /\ \A p \in Pix : im[p] \in 0..N

C4_Witness ==
    /\ pc = "relabel_ret"
    /\ stop = 3
    /\ N = 4
    /\ \A v \in 1..4 : IsOneRegion(PixelsOf(im, v))

AllLabelsSingle ==
    \A v \in ValuesOf(inp.px) : v # Zero(inp.dtype) => IsOneRegion(PixelsOf(inp.px, v))

\* C5: when every label of the input is one region relabel returns what
\* consecutively_number returns; a label with one component changes no pixel and
\* does not grow N.
C5_StableWhenSingle ==
    /\ [](pc = "relabel_ret" /\ AllLabelsSingle =>
            /\ Renumbered.exc = "none"
            /\ im = Renumbered.px
            /\ N = Small(Renumbered.n))
    /\ [][(pc = "loop" /\ checked' # checked /\ n' = 1) => (im' = im /\ N' = N /\ pc' = "loop")]_vars

C5_Witness ==
    /\ pc = "relabel_ret"
    /\ AllLabelsSingle
    /\ N = 2
    /\ im = Renumbered.px
    /\ checked = <<1, 2>>

\* The pixels that share the label of p are the region reg.
SharesLabel(p, reg) == \A q \in Pix : (im[q] = im[p]) <=> (q \in reg)

\* The returned image splits the renumbered image R with maximum N0 into its regions.
SplitOf(R, N0) ==
    /\ N = N0 + ExtraRegions(R, N0)
    /\ \A p \in Pix : im[p] # 0 => SharesLabel(p, Spread({p}, PixelsOf(R, R[p])))

\* C6: component 1 of a split label keeps the label, each further component gets the
\* next label after the largest in use, no two components share a label, and the
\* returned N is the renumbered N plus the sum of (components - 1) over the labels.
C6_SplitNumbering ==
    /\ [](pc = "relabel_ret" => SplitOf(Renumbered.px, Small(Renumbered.n)))
    /\ [][WriteStep =>
            /\ N' = MaxOf(ValuesOf(im)) + 1
            /\ \A p \in Pix : /\ l[p] = j => im'[p] = N'
                              /\ l[p] # j => im'[p] = im[p]
                              /\ l[p] = 1 => im'[p] = i]_vars

C6_Witness ==
    /\ pc = "relabel_ret"
    /\ stop = 2
    /\ N = 2
    /\ Cardinality(PixelsOf(im, 1)) = 1
    /\ Cardinality(PixelsOf(im, 2)) = 1

ExpectedType(k) ==
    IF k[3] # 0 \/ k[4] # 0 THEN IM_ULONG
    ELSE IF k[2] # 0 THEN IM_UINT
    ELSE IF k[1] > 255 THEN IM_USHORT
    ELSE IF k[1] > 1 THEN IM_BYTE
    ELSE IM_BIT

\* C7: _conv_type returns the image in the first of boolean, 8-, 16-, 32-, 64-bit
\* unsigned whose maximum is >= n, and raises OverflowError exactly when n exceeds
\* the 64-bit maximum.
C7_SmallestFittingType ==
    /\ pc = "conv_ret" => (narg[5] = 0 /\ dt = ExpectedType(narg) /\ exc = "none")
    /\ pc = "conv_raised" => (narg[5] # 0 /\ exc = "OverflowError")

C7_Witness ==
    /\ pc = "conv_ret"
    /\ narg = <<0, 0, 1, 0, 0>>
    /\ dt = IM_ULONG

\* C8 (as stated): the connected-components check runs exactly once for every label
\* from 1 to the final, grown N.
C8_ChecksUpToFinalN ==
    pc = "relabel_ret" => checked = [k \in 1..N |-> k]

\* C8 (amended): the check runs exactly once, in ascending order, for every label from
\* 1 to the N consecutively_number returned; labels created by splitting are not
\* checked and their pixels never change.
C8_ChecksUpToRenumberedN ==
    /\ [](pc = "relabel_ret" => checked = [k \in 1..Small(Renumbered.n) |-> k])
    /\ [][InRelabel => \A p \in Pix : im[p] > stop - 1 => im'[p] = im[p]]_vars

C8_Witness ==
    /\ pc = "relabel_ret"
    /\ N = 3
    /\ checked = <<1, 2>>

\* C9: every new label is written into a type that holds it: the type is widened
\* before the writes of a split to hold all its new labels, widening changes no
\* pixel, and the value stored is the label itself.
C9_NoTruncation ==
    /\ [](pc = "split" => /\ N + (n - j + 1) <= Capacity(dt)
                          /\ \A p \in Pix : im[p] <= N)
    /\ [][WriteStep => /\ N' <= Capacity(dt)
                       /\ \A p \in Pix : l[p] = j => im'[p] = N']_vars
    /\ [][(pc = "loop" /\ checked' # checked) => im' = im]_vars

C9_Witness ==
    /\ pc = "loop"
    /\ i = 2
    /\ stop = 2
    /\ dt = IM_BYTE
    /\ N = 2
    /\ \E p \in Pix : im[p] = 2

\* The pixel p of the input of histeq as an intensity 0..255 (two's complement read unsigned).
Intensity(p) == IF inp.px[p] < 0 THEN inp.px[p] + 256 ELSE inp.px[p]

\* Source cumulative count at s, and twice tol[s].
SrcCum(s) == Cardinality({p \in DOMAIN inp.px : Intensity(p) <= s})
TwiceTol(s) ==
    IF s = 0 \/ s = 255 THEN 0 ELSE Cardinality({p \in DOMAIN inp.px : Intensity(p) = s})

RECURSIVE Total(_, _)
Total(h, k) == IF k = 0 THEN 0 ELSE h[k] + Total(h, k - 1)

\* Target cumulative count at bin d (0-based) as a fraction num/den.
DstCumNum(d) ==
    IF hgram.none THEN (d + 1) * Cardinality(DOMAIN inp.px)
    ELSE Cardinality(DOMAIN inp.px) * Total(hgram.h, d + 1)
DstCumDen == IF hgram.none THEN nbins ELSE Total(hgram.h, Len(hgram.h))

\* The count that bin d's cumulative target must reach for source level s, times 2*den.
Needed(s) == DstCumDen * (2 * SrcCum(s) - TwiceTol(s))

\* b is the lowest bin whose target cumulative count is not below need/(2*den).
LowestReaching(b, need) ==
    /\ b \in 0..(nbins - 1)
    /\ 2 * DstCumNum(b) >= need
    /\ \A d \in 0..(b - 1) : 2 * DstCumNum(d) < need

\* C10: the bin chosen for every source intensity s is the lowest bin whose target
\* cumulative count is not below the source cumulative count at s minus tol[s]; the
\* table T is non-decreasing (each entry <= the next, hence T[s1] <= T[s2] for all
\* s1 <= s2) and every entry is in 0..255.
C10_MonotoneTable ==
    pc = "histeq_ret" =>
        /\ \A s \in 0..255 : LowestReaching(bins[s + 1], Needed(s)) /\ T[s + 1] \in 0..255
        /\ \A s \in 1..255 : T[s] <= T[s + 1]

C10_Witness ==
    /\ pc = "histeq_ret"
    /\ hgram.none
    /\ nbins = 4
    /\ T[1] = 0
    /\ T[101] = 85
    /\ T[102] = 170
    /\ T[256] = 255
====
